---- MODULE Spec2Model ----
(***************************************************************************)
(* A model of slurmy's Job / JobConfig (tools/job.py): the job state       *)
(* machine (submit, cancel, get_status, reset, _retry, rerun), the local   *)
(* process handle, the batch backend and the change-tracked snapshot.      *)
(*                                                                         *)
(* Every public method is one action.  The method bodies are operators on  *)
(* a record s holding the whole program state; an operator applied to a    *)
(* record whose "raised" field is TRUE returns it unchanged, which is how  *)
(* a Python exception propagating out of a nested call is modelled.        *)
(*                                                                         *)
(* The history variables lastOp, calls and result record the calls of one  *)
(* method, the observed one, which a specification fixes ("*": of every    *)
(* method).                                                                *)
(*                                                                         *)
(* Python values: None is the string "None"; the integer return codes of   *)
(* a local process are written as decimal strings ("0", "1", "-15") so     *)
(* that they can be compared with the batch backend's exit code strings    *)
(* ("0:0", ...) the way Python compares an int with a str (never equal).   *)
(***************************************************************************)
EXTENDS Naturals, Sequences, FiniteSets, TLC

(* ----------------------------- bounds ---------------------------------- *)
\* submissions (local processes spawned plus calls of backend.submit()) over the
\* life of the job
MaxSubmits == 2
\* the largest max_retries a job is constructed with
MaxMaxRetries == 1
\* the counter n_retries is followed up to this value
MaxNRetries == 2

(* ----------------------------- values ---------------------------------- *)
None == "None"

\* JobConfig.job_id before a submission: the backend's ids are 1, 2, ...
NoJobId == 0

\* Job._local_process when there is no process: the processes are 1, 2, ...
NoProcess == 0

Status == {"CONFIGURED", "RUNNING", "FINISHED", "SUCCESS", "FAILED", "CANCELLED"}

Type == {"LOCAL", "BATCH"}

\* the tags a caller may attach
Tags == {"t1"}

\* the return codes a local script ends with by itself
LocalReturnCodes == {"0", "1"}

\* what backend.exitcode() may return: "<returncode>:<signal>"
BackendExitcodes == {"0:0", "0:9"}

\* what backend.status() may return: the job still runs, or it has ended
BackendStatusValues == {"RUNNING", "FINISHED"}

\* what a hook (a function of the config returning a bool) may answer
HookOutcomes == {"True", "False"}

(* ----------------------------- state ----------------------------------- *)
VARIABLES
    config,         \* the JobConfig: its tracked properties and the update flag
    local_process,  \* Job._local_process: NoProcess or the index of a process in procs
    procs,          \* the processes spawned so far, each "running", "terminated" or its return code
    backend,        \* the batch backend: how many ids submit() has handed out
    snapshot,       \* the snapshot file: <<>> while there is none, else <<the JobConfig last written>>
    observed,       \* the method whose calls the history variables record
    lastOp,         \* the observed method and its arguments, if the last step was a call of it
    calls,          \* the external calls that call made, in order
    result          \* what that call returned: None, a status, or "Exception"

vars == <<config, local_process, procs, backend, snapshot, observed, lastOp, calls, result>>

\* the part of the state the method bodies work on
State ==
    [config |-> config, local_process |-> local_process, procs |-> procs,
     backend |-> backend, snapshot |-> snapshot,
     calls |-> <<>>, raised |-> FALSE, ret |-> None]

\* the fields of the JobConfig that make up a snapshot's content
Persisted(c) ==
    [status |-> c.status, job_id |-> c.job_id, n_retries |-> c.n_retries,
     max_retries |-> c.max_retries, exitcode |-> c.exitcode, type |-> c.type,
     tags |-> c.tags]

(* ------------------------ JobConfig ------------------------------------ *)
\* JobConfig.__init__: the dynamic variables start CONFIGURED / None / 0 / None
JobConfigInit(path, success_func, finished_func, post_func, max_retries, tags, job_type) ==
    [path |-> path, success_func |-> success_func, finished_func |-> finished_func,
     post_func |-> post_func, max_retries |-> max_retries, tags |-> tags,
     type |-> job_type, status |-> "CONFIGURED", job_id |-> NoJobId, n_retries |-> 0,
     exitcode |-> None, update |-> TRUE]

\* a tracked property's setter: stores the value and tags the config for an update,
\* whether or not the value differs from the old one
SetProp(s, prop, val) ==
    IF s.raised THEN s
    ELSE [s EXCEPT !.config = [@ EXCEPT ![prop] = val, !.update = TRUE]]

\* JobConfig.add_tag (under update_decorator): tags the config, then inserts into the set
config_add_tag(s, tag) ==
    IF s.raised THEN s
    ELSE [s EXCEPT !.config = [@ EXCEPT !.tags = @ \cup {tag}, !.update = TRUE]]

(* ------------------------ helpers -------------------------------------- *)
\* an external call (backend, hook, process, file) is appended to the method's trace
Call(s, name) == IF s.raised THEN s ELSE [s EXCEPT !.calls = Append(@, name)]

\* an external call that answers (a hook, a backend query): the answer follows the
\* call in the trace
Answer(s, name, v) == IF s.raised THEN s ELSE [s EXCEPT !.calls = @ \o <<name, v>>]

\* raise Exception
Raise(s) == IF s.raised THEN s ELSE [s EXCEPT !.raised = TRUE]

\* return v
Return(s, v) == IF s.raised THEN s ELSE [s EXCEPT !.ret = v]

\* Popen.poll(): None while the process runs, its return code afterwards
poll(p) ==
    CASE p = "running" -> None
      [] p = "terminated" -> "-15"
      [] OTHER -> p

\* Popen.terminate(): SIGTERM to a process that has not ended yet
terminate(p) == IF p = "running" THEN "terminated" ELSE p

(* ------------------------ what the environment answers ----------------- *)
\* One call of get_status consults each hook and the backend at most once; an
\* oracle fixes their answers: the hooks' results, backend.status() and
\* backend.exitcode().  An absent hook answers nothing, and a LOCAL job does not
\* ask the backend.
Oracles(c) ==
    [fin : IF c.finished_func THEN HookOutcomes ELSE {None},
     succ : IF c.success_func THEN HookOutcomes ELSE {None},
     bstat : IF c.finished_func \/ c.type = "LOCAL" THEN {None} ELSE BackendStatusValues,
     bexit : IF c.success_func \/ c.type = "LOCAL" THEN {None} ELSE BackendExitcodes]

\* the oracle of a call that can consult nothing
NoOracle == [fin |-> None, succ |-> None, bstat |-> None, bexit |-> None]

(* ------------------------ Job: status evaluation ----------------------- *)
\* Each method body is a pipeline: a statement is an operator from the state before
\* it to the state after it, and the statements of a method are nested applications.

\* The state a method is called in is worked out once, whatever the number of places
\* its body looks at it: the body is evaluated for the one element r of {s}.
Once(S) == CHOOSE r \in S : TRUE

\* return self.config.status
return_status(s) == Return(s, s.config.status)

\* a Python bool, as the value a function returns
Bool(b) == IF b THEN "True" ELSE "False"

\* Job._write_log: writes the process's captured output to backend.log (the log
\* file is not part of the state: the job never reads it)
_write_log(s) == Call(s, "write_log")

\* Job._get_local_status, after the poll: RUNNING while there is no exit code,
\* else FINISHED and the log written
local_status(s) ==
    IF s.raised THEN s
    ELSE IF s.config.exitcode = None THEN SetProp(s, "status", "RUNNING")
    ELSE _write_log(SetProp(s, "status", "FINISHED"))

\* Job._get_local_status: poll the process and store the exit code, then set the status
_get_local_status(s) ==
    IF s.raised THEN s
    ELSE IF s.local_process = NoProcess THEN Raise(s)
    ELSE local_status(SetProp(Call(s, "poll"), "exitcode", poll(s.procs[s.local_process])))

\* Job._is_success for a BATCH job without success_func, after the exit code is stored
batch_success(s) == Return(s, Bool(s.config.exitcode = "0:0"))

\* an _is_success that compares every job's exit code with the batch sentinel
is_success_BatchOnly(s, o) ==
    IF s.raised THEN s
    ELSE IF ~s.config.success_func THEN Return(s, Bool(s.config.exitcode = "0:0"))
    ELSE Return(Answer(s, "success_func", o.succ), o.succ)

\* an _is_success that looks only at the return code of the batch exit code
is_success_ReturnCodeOnly(s, o) ==
    IF s.raised THEN s
    ELSE IF ~s.config.success_func
    THEN IF s.config.type = "LOCAL"
         THEN Return(s, Bool(s.config.exitcode = "0"))
         ELSE Return(SetProp(Answer(s, "backend.exitcode", o.bexit), "exitcode", o.bexit),
                     Bool(o.bexit \in {"0:0", "0:9"}))
    ELSE Return(Answer(s, "success_func", o.succ), o.succ)

\* Job._is_success: returns "True" or "False"
_is_success(s, o) ==
    IF s.raised THEN s
    ELSE IF ~s.config.success_func
    THEN IF s.config.type = "LOCAL"
         THEN Return(s, Bool(s.config.exitcode = "0"))
         ELSE batch_success(SetProp(Answer(s, "backend.exitcode", o.bexit),
                                    "exitcode", o.bexit))
    ELSE Return(Answer(s, "success_func", o.succ), o.succ)

\* Job._finish: call post_func, if there is one
_finish(s) ==
    IF s.raised THEN s
    ELSE IF s.config.post_func THEN Call(s, "post_func")
    ELSE s

\* Job.get_status, its first half: evaluate if a RUNNING job is finished
get_status_finished(s, o) ==
    IF s.raised \/ s.config.status # "RUNNING" THEN s
    ELSE IF s.config.type = "LOCAL" THEN _get_local_status(s)
    ELSE IF s.config.finished_func
    THEN SetProp(Answer(s, "finished_func", o.fin), "status",
                 IF o.fin = "True" THEN "FINISHED" ELSE "RUNNING")
    ELSE SetProp(Answer(s, "backend.status", o.bstat), "status", o.bstat)

\* a get_status that leaves an unsuccessful job FINISHED
set_success_OrFinished(s) ==
    IF s.raised THEN s
    ELSE IF s.ret = "True" THEN SetProp(s, "status", "SUCCESS")
    ELSE SetProp(s, "status", "FINISHED")

\* Job.get_status: the status set from what _is_success returned
set_success(s) ==
    IF s.raised THEN s
    ELSE IF s.ret = "True" THEN SetProp(s, "status", "SUCCESS")
    ELSE SetProp(s, "status", "FAILED")

\* a get_status that runs the success routine on every call
get_status_success_Always(s, force_success_check, o) ==
    IF s.raised THEN s ELSE _finish(set_success(_is_success(s, o)))

\* a get_status without its second half
get_status_success_Skipped(s, force_success_check, o) == s

\* Job.get_status, its second half: evaluate if the job was successful, and finish it
get_status_success(s, force_success_check, o) ==
    IF s.raised THEN s
    ELSE IF s.config.status = "FINISHED" \/ force_success_check
    THEN _finish(set_success(_is_success(s, o)))
    ELSE s

\* Job.get_status
get_status(s, skip_eval, force_success_check, o) ==
    Once({IF r.raised THEN r
          ELSE IF skip_eval THEN return_status(r)
          ELSE return_status(get_status_success(get_status_finished(r, o),
                                                force_success_check, o)) : r \in {s}})

(* ------------------------ Job: snapshot -------------------------------- *)
\* pickle.dump(self.config) into the file at config.path
dump(s) ==
    IF s.raised THEN s
    ELSE [Call(s, "dump") EXCEPT !.snapshot = <<Persisted(s.config)>>]

\* self.config.update = False
clear_update(s) ==
    IF s.raised THEN s ELSE [s EXCEPT !.config.update = FALSE]

\* an update_snapshot that does not look at the update flag
update_snapshot_Always(s, o) ==
    IF s.raised THEN s
    ELSE IF s.config.path = None THEN Return(s, None)
    ELSE Return(clear_update(dump(get_status(s, FALSE, FALSE, o))), None)

\* an update_snapshot that writes the config without checking the status again
update_snapshot_Unrefreshed(s, o) ==
    IF s.raised THEN s
    ELSE IF s.config.path = None THEN Return(s, None)
    ELSE IF ~s.config.update THEN Return(s, None)
    ELSE Return(clear_update(dump(s)), None)

\* Job.update_snapshot
update_snapshot(s, o) ==
    Once({IF r.raised THEN r
          ELSE IF r.config.path = None THEN Return(r, None)
          ELSE IF ~r.config.update THEN Return(r, None)
          ELSE Return(clear_update(dump(get_status(r, FALSE, FALSE, o))), None) :
              r \in {s}})

(* ------------------------ Job: the state machine ----------------------- *)
\* self._local_process = None
clear_process(s) ==
    IF s.raised THEN s ELSE [s EXCEPT !.local_process = NoProcess]

\* a reset that zeroes n_retries whatever reset_retries is
reset_n_retries_Always(s, reset_retries) == SetProp(s, "n_retries", 0)

\* if reset_retries: self.config.n_retries = 0
reset_n_retries(s, reset_retries) ==
    IF reset_retries THEN SetProp(s, "n_retries", 0) ELSE s

\* Job.reset.  The get_status inside its update_snapshot runs on a CONFIGURED job
\* without force_success_check, so it consults neither hook nor backend.  The
\* removal of backend.log is left out with the log file.
reset(s, reset_retries) ==
    Once({Return(update_snapshot(
                     reset_n_retries(
                         clear_process(SetProp(SetProp(r, "status", "CONFIGURED"),
                                               "job_id", NoJobId)),
                         reset_retries),
                     NoOracle),
                 None) : r \in {s}})

\* a Popen whose process is not kept
Popen_Unkept(s) ==
    IF s.raised THEN s
    ELSE [Call(s, "Popen") EXCEPT !.procs = Append(@, "running")]

\* subprocess.Popen(command): a new running process, kept in _local_process
Popen(s) ==
    IF s.raised THEN s
    ELSE [Call(s, "Popen") EXCEPT !.procs = Append(@, "running"),
                                  !.local_process = Len(s.procs) + 1]

\* backend.submit(): hands out the next job id, kept in config.job_id
backend_submit(s) ==
    IF s.raised THEN s
    ELSE SetProp([Call(s, "backend.submit") EXCEPT !.backend.submitted = @ + 1],
                 "job_id", s.backend.submitted + 1)

\* Job.submit, past its guard: start the job as its type says
start(s) ==
    IF s.raised THEN s
    ELSE IF s.config.type = "LOCAL" THEN Popen(s) ELSE backend_submit(s)

\* a submit that does not look at the status
submit_Unguarded(s) ==
    return_status(SetProp(start(s), "status", "RUNNING"))

\* Job.submit
submit(s) ==
    Once({IF r.raised THEN r
          ELSE IF r.config.status # "CONFIGURED" THEN Raise(r)
          ELSE return_status(SetProp(start(r), "status", "RUNNING")) : r \in {s}})

\* Job.cancel, its stop of a RUNNING job
cancel_running(s) ==
    IF s.raised \/ s.config.status # "RUNNING" THEN s
    ELSE IF s.config.type = "LOCAL"
    THEN IF s.local_process = NoProcess THEN Raise(s)
         ELSE [Call(s, "terminate") EXCEPT
                  !.procs[s.local_process] = terminate(@)]
    ELSE Call(s, "backend.cancel")

\* a cancel that forgets clear_retry
clear_max_retries_Skipped(s, clear_retry) == s

\* if clear_retry: self.config.max_retries = 0
clear_max_retries(s, clear_retry) ==
    IF clear_retry THEN SetProp(s, "max_retries", 0) ELSE s

\* a cancel that does not set a FAILED job apart
cancel_NoFailedGuard(s, clear_retry) ==
    IF s.raised THEN s
    ELSE return_status(
             clear_max_retries(SetProp(cancel_running(s), "status", "CANCELLED"),
                               clear_retry))

\* Job.cancel
cancel(s, clear_retry) ==
    Once({IF r.raised THEN r
          ELSE IF r.config.status = "FAILED" THEN Return(r, None)
          ELSE return_status(
                   clear_max_retries(SetProp(cancel_running(r), "status", "CANCELLED"),
                                     clear_retry)) : r \in {s}})

\* a type setter that does not look at the status
set_type_Unguarded(s, job_type) == SetProp(s, "type", job_type)

\* Job.type (setter)
set_type(s, job_type) ==
    IF s.raised THEN s
    ELSE IF s.config.status # "CONFIGURED" THEN Raise(s)
    ELSE SetProp(s, "type", job_type)

\* a retry predicate that is off by one
do_retry_OffByOne(s) ==
    s.config.max_retries > 0 /\ s.config.n_retries <= s.config.max_retries

\* a retry predicate that knows no budget
do_retry_Unbudgeted(s) == TRUE

\* Job._do_retry
_do_retry(s) ==
    s.config.max_retries > 0 /\ s.config.n_retries < s.config.max_retries

\* a _retry that does not cancel the running job
retry_cancel_Skipped(s) == s

\* Job._retry: a RUNNING job, forced, is cancelled first
retry_cancel(s) ==
    IF s.raised \/ s.config.status # "RUNNING" THEN s ELSE cancel(s, FALSE)

\* Job._retry: if job_type is not None: self.type = job_type
retry_type(s, job_type) ==
    IF job_type # None THEN set_type(s, job_type) ELSE s

\* a _retry that does not count
retry_count_Forgotten(s) == s

\* Job._retry: self.config.n_retries += 1
retry_count(s) ==
    IF s.raised THEN s ELSE SetProp(s, "n_retries", s.config.n_retries + 1)

\* Job._retry: if submit: self.submit()
retry_submit(s, do_submit) ==
    IF do_submit THEN submit(s) ELSE s

\* Job._retry; job_type is None or the new type
_retry(s, force, do_submit, ignore_max_retries, job_type) ==
    IF s.raised THEN s
    ELSE IF ~ignore_max_retries /\ ~_do_retry(s) THEN Return(s, None)
    ELSE IF s.config.status = "RUNNING" /\ ~force THEN Return(s, None)
    ELSE return_status(
             retry_submit(
                 retry_count(retry_type(reset(retry_cancel(s), FALSE), job_type)),
                 do_submit))

\* a rerun that respects the retry budget
rerun_Budgeted(s, job_type) ==
    Return(_retry(s, TRUE, TRUE, FALSE, job_type), None)

\* Job.rerun
rerun(s, job_type) ==
    Return(_retry(s, TRUE, TRUE, TRUE, job_type), None)

(* ------------------------ actions -------------------------------------- *)
\* the arguments a method does not take are left at these values
NoArgs ==
    [name |-> None, clear_retry |-> FALSE, reset_retries |-> FALSE, skip_eval |-> FALSE,
     force_success_check |-> FALSE, force |-> FALSE, submit |-> FALSE,
     ignore_max_retries |-> FALSE, job_type |-> None, tag |-> None]

\* the model follows the job while its counters stay within the bounds
WithinBounds(s) ==
    /\ Len(s.procs) + s.backend.submitted <= MaxSubmits
    /\ s.config.n_retries <= MaxNRetries

\* the calls of method name are recorded: it is the observed method, or every
\* method is observed ("*")
Observed(name) == observed \in {name, "*"}

\* the state a method call ends in becomes the next state; the call is recorded
\* when the method is the observed one
Apply(s, op) ==
    /\ config' = s.config
    /\ local_process' = s.local_process
    /\ procs' = s.procs
    /\ backend' = s.backend
    /\ snapshot' = s.snapshot
    /\ observed' = observed
    /\ lastOp' = IF Observed(op.name) THEN op ELSE NoArgs
    /\ calls' = IF Observed(op.name) THEN s.calls ELSE <<>>
    /\ result' = IF ~Observed(op.name) THEN None
                 ELSE IF s.raised THEN "Exception" ELSE s.ret

\* a method call of the job followed within the bounds
Finish(s, op) == WithinBounds(s) /\ Apply(s, op)

Submit == Finish(submit(State), [NoArgs EXCEPT !.name = "submit"])

Cancel ==
    \E clear_retry \in BOOLEAN :
        Finish(cancel(State, clear_retry),
               [NoArgs EXCEPT !.name = "cancel", !.clear_retry = clear_retry])

GetStatus ==
    \E skip_eval \in BOOLEAN, force_success_check \in BOOLEAN, o \in Oracles(config) :
        Finish(get_status(State, skip_eval, force_success_check, o),
               [NoArgs EXCEPT !.name = "get_status", !.skip_eval = skip_eval,
                              !.force_success_check = force_success_check])

Reset ==
    \E reset_retries \in BOOLEAN :
        Finish(reset(State, reset_retries),
               [NoArgs EXCEPT !.name = "reset", !.reset_retries = reset_retries])

Retry ==
    \E force \in BOOLEAN, do_submit \in BOOLEAN, ignore_max_retries \in BOOLEAN,
       job_type \in Type \cup {None} :
        Finish(_retry(State, force, do_submit, ignore_max_retries, job_type),
               [NoArgs EXCEPT !.name = "_retry", !.force = force, !.submit = do_submit,
                              !.ignore_max_retries = ignore_max_retries,
                              !.job_type = job_type])

Rerun ==
    \E job_type \in Type \cup {None} :
        Finish(rerun(State, job_type),
               [NoArgs EXCEPT !.name = "rerun", !.job_type = job_type])

UpdateSnapshot ==
    \E o \in Oracles(config) :
        Finish(update_snapshot(State, o), [NoArgs EXCEPT !.name = "update_snapshot"])

AddTag ==
    \E tag \in Tags :
        Finish(config_add_tag(State, tag), [NoArgs EXCEPT !.name = "add_tag", !.tag = tag])

SetType ==
    \E job_type \in Type :
        Finish(set_type(State, job_type),
               [NoArgs EXCEPT !.name = "type", !.job_type = job_type])

\* the environment: a running local process ends by itself with some return code
ProcessExit ==
    \E p \in 1..Len(procs), code \in LocalReturnCodes :
        /\ procs[p] = "running"
        /\ procs' = [procs EXCEPT ![p] = code]
        /\ lastOp' = NoArgs
        /\ calls' = <<>>
        /\ result' = None
        /\ UNCHANGED <<config, local_process, backend, snapshot, observed>>

(* ------------------------ specifications ------------------------------- *)
\* the tags the jobs are constructed with
InitialTags == {"t1"}

\* jobs without hooks and without a snapshot path: every retry budget, both types
PlainConfigs ==
    {JobConfigInit(None, FALSE, FALSE, FALSE, max_retries, InitialTags, job_type) :
        max_retries \in 0..MaxMaxRetries, job_type \in Type}

\* jobs with each hook present or absent, without a snapshot path and without a
\* retry budget
HookConfigs ==
    {JobConfigInit(None, success_func, finished_func, post_func, 0,
                   InitialTags, job_type) :
        success_func \in BOOLEAN, finished_func \in BOOLEAN, post_func \in BOOLEAN,
        job_type \in Type}

\* jobs with a snapshot path (and a retry budget of one)
PathConfigs ==
    {JobConfigInit("job.pkl", FALSE, FALSE, FALSE, 1, InitialTags, job_type) :
        job_type \in Type}

\* Job.__init__ on a fresh JobConfig, with the calls of method m to be recorded
InitOf(configs, m) ==
    /\ config \in configs
    /\ local_process = NoProcess
    /\ procs = <<>>
    /\ backend = [submitted |-> 0]
    /\ snapshot = <<>>
    /\ observed = m
    /\ lastOp = NoArgs
    /\ calls = <<>>
    /\ result = None

\* the job driven through all its methods, and its local processes ending
Next ==
    \/ Submit
    \/ Cancel
    \/ GetStatus
    \/ Reset
    \/ Retry
    \/ Rerun
    \/ UpdateSnapshot
    \/ SetType
    \/ ProcessExit

\* the calls of submit observed
Init == InitOf(PlainConfigs, "submit")

Spec == Init /\ [][Next]_vars

\* the calls of _retry observed
InitRetry == InitOf(PlainConfigs, "_retry")

SpecRetry == InitRetry /\ [][Next]_vars

\* the calls of rerun observed
InitRerun == InitOf(PlainConfigs \cup PathConfigs, "rerun")

SpecRerun == InitRerun /\ [][Next]_vars

\* the calls of get_status observed, on jobs with and without hooks
InitGetStatus == InitOf(HookConfigs, "get_status")

SpecGetStatus == InitGetStatus /\ [][Next]_vars

\* the calls of update_snapshot observed, on jobs with and without a snapshot path
InitSnapshot == InitOf(PlainConfigs \cup PathConfigs, "update_snapshot")

SpecSnapshot == InitSnapshot /\ [][Next]_vars

\* the calls of cancel observed
InitCancel == InitOf(PlainConfigs, "cancel")

SpecCancel == InitCancel /\ [][Next]_vars

\* the calls of reset observed, on jobs with and without a snapshot path
InitReset == InitOf(PlainConfigs \cup PathConfigs, "reset")

SpecReset == InitReset /\ [][Next]_vars

\* LOCAL jobs without success_func
LocalConfigs ==
    {JobConfigInit(path, FALSE, finished_func, post_func, max_retries, InitialTags, "LOCAL") :
        path \in {None, "job.pkl"}, finished_func \in BOOLEAN, post_func \in BOOLEAN,
        max_retries \in 0..MaxMaxRetries}

\* the driver's poll: get_status() with its default arguments
Poll ==
    \E o \in Oracles(config) :
        Finish(get_status(State, FALSE, FALSE, o), [NoArgs EXCEPT !.name = "get_status"])

\* a driver that submits, then only polls (and saves snapshots): no cancel, no reset,
\* no retry
NextPoll ==
    \/ Submit
    \/ Poll
    \/ UpdateSnapshot
    \/ ProcessExit

InitPoll == InitOf(LocalConfigs, "get_status")

\* the driver keeps polling, and the process ends
SpecPoll == InitPoll /\ [][NextPoll]_vars /\ WF_vars(Poll) /\ WF_vars(ProcessExit)

(* ------------------------ C1: submit ----------------------------------- *)
\* C1: submit() on a CONFIGURED job returns RUNNING and leaves the status RUNNING,
\* having spawned one process (LOCAL) or called backend.submit() once and stored the
\* id it returned in job_id (BATCH); submit() in any other status raises and changes
\* nothing: the config (status, job_id, update flag and all), the process handle,
\* the processes and the backend are as before, and no external call was made.
C1_SubmitContract ==
    [][lastOp'.name = "submit" =>
        IF config.status = "CONFIGURED"
        THEN /\ result' = "RUNNING"
             /\ config'.status = "RUNNING"
             /\ config.type = "LOCAL" =>
                   /\ calls' = <<"Popen">>
                   /\ Len(procs') = Len(procs) + 1
                   /\ local_process' = Len(procs')
                   /\ procs'[local_process'] = "running"
                   /\ backend' = backend
             /\ config.type = "BATCH" =>
                   /\ calls' = <<"backend.submit">>
                   /\ backend'.submitted = backend.submitted + 1
                   /\ config'.job_id = backend'.submitted
                   /\ procs' = procs /\ local_process' = local_process
        ELSE /\ result' = "Exception"
             /\ calls' = <<>>
             /\ UNCHANGED <<config, local_process, procs, backend, snapshot>>]_vars

\* a second submit() on a RUNNING batch job (its first submit stored an id) has raised
C1_Witness ==
    /\ lastOp.name = "submit"
    /\ result = "Exception"
    /\ config.status = "RUNNING"
    /\ config.type = "BATCH"
    /\ config.job_id # NoJobId

(* ------------------------ C2: the retry budget ------------------------- *)
\* the step is a call of _retry within the budget's reach (ignore_max_retries=False)
\* that asks for the resubmission
AutomaticRetry ==
    /\ lastOp'.name = "_retry"
    /\ ~lastOp'.ignore_max_retries

\* the call was refused: nothing changed, nothing was called, None was returned
Refused ==
    /\ UNCHANGED <<config, local_process, procs, backend, snapshot>>
    /\ calls' = <<>>
    /\ result' = None

\* the job was reset and counted: one more retry, the budget untouched, the type
\* the one asked for (or the old one), and no trace of the previous attempt
ResetAndCounted(job_type) ==
    /\ config'.n_retries = config.n_retries + 1
    /\ config'.max_retries = config.max_retries
    /\ config'.type = IF job_type = None THEN config.type ELSE job_type
    /\ config'.status \in {"CONFIGURED", "RUNNING"}
    /\ config'.status = "CONFIGURED" => config'.job_id = NoJobId /\ local_process' = NoProcess

\* the job was submitted anew: RUNNING, with a fresh process or a fresh backend id
Resubmitted ==
    /\ config'.status = "RUNNING"
    /\ config'.type = "LOCAL" =>
          /\ Len(procs') = Len(procs) + 1
          /\ local_process' = Len(procs')
          /\ procs'[local_process'] = "running"
          /\ config'.job_id = NoJobId
    /\ config'.type = "BATCH" =>
          /\ backend'.submitted = backend.submitted + 1
          /\ config'.job_id = backend'.submitted
          /\ local_process' = NoProcess

\* C2 as stated: an automatic retry resets the job, adds exactly 1 to n_retries and
\* resubmits whenever n_retries < max_retries, and is refused with no state change
\* otherwise.  (Read with submit=True, the call that resubmits.)
C2_Original ==
    [][(AutomaticRetry /\ lastOp'.submit) =>
        IF config.n_retries < config.max_retries
        THEN ResetAndCounted(lastOp'.job_type) /\ Resubmitted
        ELSE Refused]_vars

\* C2 amended: an automatic retry is refused with no state change when
\* n_retries >= max_retries (always when max_retries = 0), and also when the job is
\* RUNNING and force=False; otherwise it resets the job, adds exactly 1 to n_retries
\* and, with submit=True, resubmits (with submit=False the job stays CONFIGURED).
C2_RetryBudget ==
    [][AutomaticRetry =>
        IF config.n_retries >= config.max_retries THEN Refused
        ELSE IF config.status = "RUNNING" /\ ~lastOp'.force THEN Refused
        ELSE /\ ResetAndCounted(lastOp'.job_type)
             /\ IF lastOp'.submit THEN Resubmitted /\ result' = "RUNNING"
                ELSE config'.status = "CONFIGURED" /\ result' = "CONFIGURED"]_vars

\* an automatic retry of a FAILED job whose budget is used up has been refused
C2_Witness ==
    /\ lastOp.name = "_retry"
    /\ ~lastOp.ignore_max_retries
    /\ lastOp.submit
    /\ result = None
    /\ calls = <<>>
    /\ config.status = "FAILED"
    /\ config.max_retries > 0
    /\ config.n_retries = config.max_retries

(* ------------------------ C3: rerun ------------------------------------ *)
\* C3: rerun(job_type) from every status and whatever n_retries and max_retries are
\* ends with the job reset and resubmitted: status RUNNING with a fresh process or
\* backend id, n_retries one more, max_retries untouched, and the type the one asked
\* for (the old one when none was given).  A job that was RUNNING was stopped first.
C3_RerunAlways ==
    [][lastOp'.name = "rerun" =>
        /\ ResetAndCounted(lastOp'.job_type)
        /\ Resubmitted
        /\ result' = None
        /\ config.status = "RUNNING" =>
              calls'[1] = (IF config.type = "LOCAL" THEN "terminate" ELSE "backend.cancel")]_vars

\* a rerun beyond the retry budget has resubmitted the job
C3_Witness ==
    /\ lastOp.name = "rerun"
    /\ config.status = "RUNNING"
    /\ config.max_retries > 0
    /\ config.n_retries > config.max_retries

(* ------------------------ C4: a local job's exit code ------------------ *)
\* the job's process has ended by itself with return code c
ExitedWith(c) == local_process # NoProcess /\ procs[local_process] = c

\* C4: a submitted LOCAL job without success_func, polled by a driver that does not
\* cancel, reset or retry: once its process has exited with code 0 the job comes to
\* report SUCCESS and never reports FAILED, and once it has exited with a nonzero
\* code the job comes to report FAILED and never reports SUCCESS; a submitted job
\* comes to report one of the two.
C4_LocalExitStatus ==
    /\ [](config.status = "SUCCESS" => ExitedWith("0"))
    /\ [](config.status = "FAILED" => ExitedWith("1"))
    /\ (ExitedWith("0") ~> config.status = "SUCCESS")
    /\ (ExitedWith("1") ~> config.status = "FAILED")
    /\ (config.status = "RUNNING" ~> config.status \in {"SUCCESS", "FAILED"})
    /\ [][config.status \in {"SUCCESS", "FAILED"} => config'.status = config.status]_vars

\* a poll has found the process ended with code 0 and reported SUCCESS
C4_Witness ==
    /\ lastOp.name = "get_status"
    /\ ExitedWith("0")
    /\ config.exitcode = "0"
    /\ result = "SUCCESS"
    /\ config.status = "SUCCESS"

(* ------------------------ C5: a batch job's exit code ------------------ *)
\* the last call made the external call name
Called(name) == \E i \in 1..Len(calls) : calls[i] = name

\* what the external call name answered
AnswerOf(name) == calls[(CHOOSE i \in 1..Len(calls) : calls[i] = name) + 1]

\* C5: in a get_status call on a BATCH job without success_func, success is evaluated
\* when force_success_check is given or the job is found finished (finished_func
\* answers True or, without it, backend.status() answers FINISHED); then the backend's
\* exit code is read once and stored in the config, and the status (and the value
\* returned) is SUCCESS if that exit code is exactly "0:0" and FAILED otherwise.
\* When success is not evaluated the backend's exit code is not read.
C5_BatchExitcode ==
    [][(/\ lastOp'.name = "get_status"
        /\ ~lastOp'.skip_eval
        /\ config.type = "BATCH"
        /\ ~config.success_func) =>
        IF \/ lastOp'.force_success_check
           \/ config.status = "FINISHED"
           \/ /\ config.status = "RUNNING"
              /\ \/ Called("finished_func")' /\ AnswerOf("finished_func")' = "True"
                 \/ Called("backend.status")' /\ AnswerOf("backend.status")' = "FINISHED"
        THEN /\ Called("backend.exitcode")'
             /\ config'.exitcode = AnswerOf("backend.exitcode")'
             /\ config'.exitcode \in BackendExitcodes
             /\ config'.status = IF config'.exitcode = "0:0" THEN "SUCCESS" ELSE "FAILED"
             /\ result' = config'.status
        ELSE /\ ~Called("backend.exitcode")'
             /\ config'.exitcode = config.exitcode]_vars

\* a poll of a RUNNING batch job found it finished with exit code "0:9": FAILED
C5_Witness ==
    /\ lastOp.name = "get_status"
    /\ ~lastOp.force_success_check
    /\ config.type = "BATCH"
    /\ ~config.success_func
    /\ Called("backend.exitcode")
    /\ config.exitcode = "0:9"
    /\ config.status = "FAILED"

(* ------------------------ C6, C7: update_snapshot ---------------------- *)
\* how often the last call made the external call name
Count(name) == Cardinality({i \in 1..Len(calls) : calls[i] = name})

\* C6: update_snapshot() writes the JobConfig iff path is set and the update flag is
\* set when it is called.  When it writes it writes exactly once, after refreshing the
\* status, the file then holds the config as it is on return, and the update flag is
\* cleared; otherwise it does nothing at all: no write, no status evaluation, no
\* external call, the update flag and everything else as before.
C6_WriteIffDirty ==
    [][lastOp'.name = "update_snapshot" =>
        IF config.path # None /\ config.update
        THEN /\ Count("dump")' = 1
             /\ calls'[Len(calls')] = "dump"
             /\ snapshot' = <<Persisted(config')>>
             /\ ~config'.update
             /\ result' = None
        ELSE Refused]_vars

\* an update_snapshot has polled the process, found the job FAILED and written that
C6_Witness ==
    /\ lastOp.name = "update_snapshot"
    /\ calls = <<"poll", "write_log", "dump">>
    /\ ~config.update
    /\ config.status = "FAILED"
    /\ snapshot = <<Persisted(config)>>

\* C7: the snapshot is never rewritten unnecessarily: when every field of the
\* JobConfig has the value it has in the snapshot written last, update_snapshot()
\* performs no write (so polling a still running job between two update_snapshot()
\* calls causes no second write).
C7_NoUnnecessaryWrite ==
    [][(/\ lastOp'.name = "update_snapshot"
        /\ snapshot = <<Persisted(config)>>) =>
        ~Called("dump")']_vars

(* ------------------------ C8, C9: cancel ------------------------------- *)
\* C8: cancel() on a FAILED job does nothing: the status stays FAILED, no config field
\* changes (max_retries neither, whatever clear_retry is), no process is terminated
\* and backend.cancel() is not called.  In every other status cancel() leaves the
\* status CANCELLED; it terminates the local process (LOCAL) or calls
\* backend.cancel() (BATCH) exactly when the status was RUNNING, and changes nothing
\* else but max_retries, which clear_retry sets to 0.
C8_CancelFrame ==
    [][lastOp'.name = "cancel" =>
        IF config.status = "FAILED" THEN Refused
        ELSE /\ config'.status = "CANCELLED"
             /\ result' = "CANCELLED"
             /\ calls' = IF config.status # "RUNNING" THEN <<>>
                         ELSE IF config.type = "LOCAL" THEN <<"terminate">>
                         ELSE <<"backend.cancel">>
             /\ procs' = IF config.status = "RUNNING" /\ config.type = "LOCAL"
                         THEN [procs EXCEPT ![local_process] = terminate(@)]
                         ELSE procs
             /\ config' = [config EXCEPT
                              !.status = "CANCELLED",
                              !.max_retries = IF lastOp'.clear_retry THEN 0 ELSE @,
                              !.update = TRUE]
             /\ UNCHANGED <<local_process, backend, snapshot>>]_vars

\* cancel(clear_retry=True) on a FAILED job with a retry budget has done nothing
C8_Witness ==
    /\ lastOp.name = "cancel"
    /\ lastOp.clear_retry
    /\ result = None
    /\ calls = <<>>
    /\ config.status = "FAILED"
    /\ config.max_retries > 0

\* every automatic retry of the job as it is now is refused without a trace
AutomaticRetryRefused ==
    \A force \in BOOLEAN, do_submit \in BOOLEAN, job_type \in Type \cup {None} :
        _retry(State, force, do_submit, FALSE, job_type) = State

\* C9 as stated: after cancel(clear_retry=True) on a job in any status max_retries is 0
C9_Original ==
    [][(lastOp'.name = "cancel" /\ lastOp'.clear_retry) => config'.max_retries = 0]_vars

\* C9 amended: after cancel(clear_retry=True) on a job in any status but FAILED
\* max_retries is 0; once max_retries is 0 it stays 0 whatever operations follow, and
\* while it is 0 the retry predicate is false and every automatic retry is refused.
C9_ClearRetry ==
    /\ [][(lastOp'.name = "cancel" /\ lastOp'.clear_retry /\ config.status # "FAILED")
            => config'.max_retries = 0]_vars
    /\ [][config.max_retries = 0 => config'.max_retries = 0]_vars
    /\ [](config.max_retries = 0 => ~_do_retry(State) /\ AutomaticRetryRefused)

\* cancel(clear_retry=True) has stopped a running local job and cleared its budget
C9_Witness ==
    /\ lastOp.name = "cancel"
    /\ lastOp.clear_retry
    /\ calls = <<"terminate">>
    /\ config.status = "CANCELLED"
    /\ config.max_retries = 0
    /\ AutomaticRetryRefused

(* ------------------------ C10: reset ----------------------------------- *)
\* C10: after reset(reset_retries), from any status, the status is CONFIGURED, job_id
\* is None and there is no process handle; n_retries is 0 with reset_retries=True and
\* unchanged with reset_retries=False; max_retries, the type and the tags (and the
\* exit code) are unchanged; and the snapshot is updated: with a path set the config
\* is written once and the update flag is False on return.
C10_ResetFrame ==
    [][lastOp'.name = "reset" =>
        /\ config' = [config EXCEPT
                         !.status = "CONFIGURED",
                         !.job_id = NoJobId,
                         !.n_retries = IF lastOp'.reset_retries THEN 0 ELSE @,
                         !.update = (config.path = None)]
        /\ local_process' = NoProcess
        /\ calls' = IF config.path = None THEN <<>> ELSE <<"dump">>
        /\ snapshot' = IF config.path = None THEN snapshot ELSE <<Persisted(config')>>
        /\ result' = None
        /\ UNCHANGED <<procs, backend>>]_vars

\* reset(reset_retries=False) of a retried job with a path has kept the count and
\* saved the snapshot
C10_Witness ==
    /\ lastOp.name = "reset"
    /\ ~lastOp.reset_retries
    /\ config.n_retries > 0
    /\ config.status = "CONFIGURED"
    /\ config.path # None
    /\ ~config.update
    /\ snapshot = <<Persisted(config)>>

(* ------------------------ C11: n_retries and max_retries --------------- *)
\* an automatic retry: _retry with ignore_max_retries=False
AutoRetry ==
    \E force \in BOOLEAN, do_submit \in BOOLEAN, job_type \in Type \cup {None} :
        Finish(_retry(State, force, do_submit, FALSE, job_type),
               [NoArgs EXCEPT !.name = "_retry", !.force = force, !.submit = do_submit,
                              !.job_type = job_type])

\* the job driven without a manual rerun: submit, get_status, cancel, reset and
\* automatic retries
NextAuto ==
    \/ Submit
    \/ GetStatus
    \/ Cancel
    \/ Reset
    \/ AutoRetry
    \/ ProcessExit

InitAuto == InitOf(PlainConfigs, "_retry")

SpecAuto == InitAuto /\ [][NextAuto]_vars

\* C11 as stated: without a manual rerun n_retries never exceeds max_retries
C11_Original == config.n_retries <= config.max_retries

\* C11 amended: without a manual rerun n_retries exceeds max_retries only after
\* cancel(clear_retry=True) has set max_retries to 0 under a job that had been
\* retried; no step that leaves max_retries as it is takes n_retries beyond it.
C11_RetriesWithinBudget ==
    /\ [](config.n_retries <= config.max_retries \/ config.max_retries = 0)
    /\ [][(/\ config.n_retries <= config.max_retries
           /\ config'.max_retries = config.max_retries)
            => config'.n_retries <= config'.max_retries]_vars

\* an automatic retry has used up the budget: the job runs its last attempt
C11_Witness ==
    /\ lastOp.name = "_retry"
    /\ result = "RUNNING"
    /\ config.max_retries > 0
    /\ config.n_retries = config.max_retries

(* ------------------------ C12: the status machine ---------------------- *)
\* the job driven by submit, get_status, cancel, automatic retries and rerun
NextMachine ==
    \/ Submit
    \/ GetStatus
    \/ Cancel
    \/ AutoRetry
    \/ Rerun
    \/ ProcessExit

\* every method's calls observed
InitMachine == InitOf(PlainConfigs, "*")

SpecMachine == InitMachine /\ [][NextMachine]_vars

\* the job was never submitted: no process was spawned, no backend id handed out
NeverSubmitted == Len(procs) = 0 /\ backend.submitted = 0

\* C12 as stated: every status change is CONFIGURED->RUNNING by submit,
\* RUNNING->FINISHED->SUCCESS/FAILED by get_status, non-terminal->CANCELLED by cancel,
\* FAILED/CANCELLED->CONFIGURED->RUNNING by a retry, or the work of a manual rerun;
\* and a job never submitted is never SUCCESS or FAILED.
C12_Original ==
    /\ [][config'.status # config.status =>
            \/ /\ lastOp'.name = "submit"
               /\ config.status = "CONFIGURED" /\ config'.status = "RUNNING"
            \/ /\ lastOp'.name = "get_status"
               /\ config.status \in {"RUNNING", "FINISHED"}
               /\ config'.status \in {"FINISHED", "SUCCESS", "FAILED"}
            \/ /\ lastOp'.name = "cancel"
               /\ config.status \in {"CONFIGURED", "RUNNING", "FINISHED"}
               /\ config'.status = "CANCELLED"
            \/ /\ lastOp'.name = "_retry"
               /\ config.status \in {"FAILED", "CANCELLED"}
               /\ config'.status \in {"CONFIGURED", "RUNNING"}
            \/ /\ lastOp'.name = "rerun"
               /\ config'.status \in {"CONFIGURED", "RUNNING"}]_vars
    /\ [](NeverSubmitted => config.status \notin {"SUCCESS", "FAILED"})

\* C12 amended: every status change is CONFIGURED->RUNNING by submit; RUNNING->SUCCESS
\* or FAILED by get_status; any status->SUCCESS or FAILED by
\* get_status(force_success_check=True); any status but FAILED->CANCELLED by cancel;
\* any status->CONFIGURED or RUNNING by an automatic retry within the budget (from
\* RUNNING only with force) and ->RUNNING by rerun.  SUCCESS is not terminal: cancel,
\* a forced success check and a retry within the budget change it.  A job never
\* submitted is not RUNNING, and becomes SUCCESS or FAILED only by
\* get_status(force_success_check=True).
C12_StatusMachine ==
    /\ [][config'.status # config.status =>
            \/ /\ lastOp'.name = "submit"
               /\ config.status = "CONFIGURED" /\ config'.status = "RUNNING"
            \/ /\ lastOp'.name = "get_status"
               /\ ~lastOp'.skip_eval
               /\ config.status = "RUNNING" \/ lastOp'.force_success_check
               /\ config'.status \in {"SUCCESS", "FAILED"}
            \/ /\ lastOp'.name = "cancel"
               /\ config.status # "FAILED"
               /\ config'.status = "CANCELLED"
            \/ /\ lastOp'.name = "_retry"
               /\ _do_retry(State)
               /\ config.status = "RUNNING" => lastOp'.force
               /\ config'.status = IF lastOp'.submit THEN "RUNNING" ELSE "CONFIGURED"
            \/ /\ lastOp'.name = "rerun"
               /\ config'.status = "RUNNING"]_vars
    /\ [][(NeverSubmitted' /\ config'.status \in {"SUCCESS", "FAILED"}) =>
            \/ config'.status = config.status
            \/ lastOp'.name = "get_status" /\ lastOp'.force_success_check]_vars
    /\ [](NeverSubmitted => config.status # "RUNNING")

\* a local job that had succeeded (its exit code 0 is stored) has been cancelled
C12_Witness ==
    /\ lastOp.name = "cancel"
    /\ config.status = "CANCELLED"
    /\ config.type = "LOCAL"
    /\ config.exitcode = "0"

(* ------------------------ C13: the retry loop of a failing job --------- *)
\* the largest retry budget of the failing job
DriverMaxRetries == 2

\* the return codes of a script that fails
FailCodes == {"1", "2"}

\* LOCAL jobs without hooks, with and without a snapshot path
FailingConfigs ==
    {JobConfigInit(path, FALSE, FALSE, FALSE, max_retries, InitialTags, "LOCAL") :
        path \in {None, "job.pkl"}, max_retries \in 0..DriverMaxRetries}

\* the driver's first round: submit()
DriverSubmit ==
    /\ config.status = "CONFIGURED"
    /\ procs = <<>>
    /\ Apply(submit(State), [NoArgs EXCEPT !.name = "submit"])

\* the driver polls while the attempt is RUNNING: get_status()
DriverPoll ==
    /\ config.status = "RUNNING"
    /\ Apply(get_status(State, FALSE, FALSE, NoOracle), [NoArgs EXCEPT !.name = "get_status"])

\* the attempt is no longer RUNNING: the driver asks for an automatic retry,
\* _retry(submit=True)
DriverRetry ==
    /\ config.status \notin {"CONFIGURED", "RUNNING"}
    /\ Apply(_retry(State, FALSE, TRUE, FALSE, None),
             [NoArgs EXCEPT !.name = "_retry", !.submit = TRUE])

\* the script fails on every attempt
ScriptFails ==
    \E p \in 1..Len(procs), code \in FailCodes :
        /\ procs[p] = "running"
        /\ procs' = [procs EXCEPT ![p] = code]
        /\ lastOp' = NoArgs
        /\ calls' = <<>>
        /\ result' = None
        /\ UNCHANGED <<config, local_process, backend, snapshot, observed>>

NextDriver ==
    \/ DriverSubmit
    \/ DriverPoll
    \/ DriverRetry
    \/ ScriptFails

InitDriver == InitOf(FailingConfigs, "_retry")

\* the driver keeps going, and every attempt ends
SpecDriver ==
    /\ InitDriver
    /\ [][NextDriver]_vars
    /\ WF_vars(DriverSubmit) /\ WF_vars(DriverPoll) /\ WF_vars(DriverRetry)
    /\ WF_vars(ScriptFails)

\* C13: a LOCAL job without hooks and with max_retries=N whose script fails on every
\* attempt, driven by submit, poll until not RUNNING, automatic retry: the job is
\* submitted N+1 times in all (resubmitted exactly N times), n_retries never exceeds N,
\* every automatic retry asked for once n_retries = N is refused, and the job ends,
\* and stays, FAILED with n_retries = N.
C13_FailingJobLoop ==
    /\ [](Len(procs) <= config.max_retries + 1 /\ config.n_retries <= config.max_retries)
    /\ [][(AutomaticRetry /\ config.n_retries >= config.max_retries) => Refused]_vars
    /\ [][(AutomaticRetry /\ config.n_retries < config.max_retries) =>
            /\ Len(procs') = Len(procs) + 1
            /\ config'.n_retries = config.n_retries + 1
            /\ config'.status = "RUNNING"]_vars
    /\ <>[](/\ config.status = "FAILED"
            /\ config.n_retries = config.max_retries
            /\ Len(procs) = config.max_retries + 1)

\* the job with max_retries=2 has failed three times, and a further retry was refused
C13_Witness ==
    /\ lastOp.name = "_retry"
    /\ result = None
    /\ config.status = "FAILED"
    /\ config.max_retries = 2
    /\ config.n_retries = 2
    /\ Len(procs) = 3
    /\ \A p \in 1..3 : procs[p] \in FailCodes

(* ------------------------ C14: retry of a RUNNING job ------------------ *)
\* the calls of _retry observed, on jobs with a snapshot path
InitForce == InitOf(PathConfigs, "_retry")

\* the job driven by submit, get_status and _retry
NextForce ==
    \/ Submit
    \/ GetStatus
    \/ Retry
    \/ ProcessExit

SpecForce == InitForce /\ [][NextForce]_vars

\* the external call that stops a running job of the given type
StopCall(job_type) == IF job_type = "LOCAL" THEN "terminate" ELSE "backend.cancel"

\* the external call that starts a job of the given type
StartCall(job_type) == IF job_type = "LOCAL" THEN "Popen" ELSE "backend.submit"

TypeConfigs ==
    {JobConfigInit(None, FALSE, FALSE, FALSE, 1, InitialTags, job_type) :
        job_type \in Type}

InitType == InitOf(TypeConfigs, "*")

\* (without update_snapshot, which does nothing for a job without a path; the
\* retries are the automatic ones and rerun)
NextType ==
    \/ Submit
    \/ Cancel
    \/ GetStatus
    \/ Reset
    \/ AutoRetry
    \/ Rerun
    \/ SetType
    \/ ProcessExit

SpecType == InitType /\ [][NextType]_vars

\* C15: the type is set only on a CONFIGURED job.  The setter raises in any other
\* status and changes nothing; on a CONFIGURED job it stores the type.  Whenever the
\* type changes, the step is the setter on a CONFIGURED job, or a _retry/rerun given
\* that type which went ahead (it counted the retry; it never raises, its setter runs
\* after the reset to CONFIGURED) and which, on a RUNNING job, had stopped the running
\* attempt first.  A refused retry leaves the type.
C15_TypeOnlyConfigured ==
    /\ [][lastOp'.name = "type" =>
            IF config.status = "CONFIGURED"
            THEN /\ config' = [config EXCEPT !.type = lastOp'.job_type, !.update = TRUE]
                 /\ result' # "Exception"
            ELSE /\ result' = "Exception"
                 /\ UNCHANGED <<config, local_process, procs, backend, snapshot>>]_vars
    /\ [][lastOp'.name \in {"_retry", "rerun"} => result' # "Exception"]_vars
    /\ [][config'.type # config.type =>
            \/ lastOp'.name = "type" /\ config.status = "CONFIGURED"
            \/ /\ lastOp'.name \in {"_retry", "rerun"}
               /\ lastOp'.job_type = config'.type
               /\ config'.n_retries = config.n_retries + 1
               /\ config.status = "RUNNING" =>
                     /\ lastOp'.name = "_retry" => lastOp'.force
                     /\ calls'[1] = StopCall(config.type)]_vars

\* a forced retry has terminated the running LOCAL attempt and resubmitted the job
\* as a BATCH job
C15_Witness ==
    /\ lastOp.name = "_retry"
    /\ lastOp.job_type = "BATCH"
    /\ calls = <<"terminate", "backend.submit">>
    /\ config.type = "BATCH"
    /\ config.status = "RUNNING"
    /\ procs = <<"terminated">>

(* ------------------------ C16: no lost update -------------------------- *)
\* the calls of update_snapshot observed, on jobs with a snapshot path
InitPersist == InitOf(PathConfigs, "update_snapshot")

\* the job driven through its methods, the retries being the automatic ones
NextPersist ==
    \/ Submit
    \/ Cancel
    \/ GetStatus
    \/ Reset
    \/ AutoRetry
    \/ UpdateSnapshot
    \/ SetType
    \/ ProcessExit

SpecPersist == InitPersist /\ [][NextPersist]_vars

\* the attempt of a RUNNING job is over, seen from outside: the local process has
\* ended
LocalAttemptOver ==
    /\ config.status = "RUNNING"
    /\ config.type = "LOCAL"
    /\ local_process # NoProcess
    /\ procs[local_process] # "running"

\* C16: once a snapshot has been written, an update flag that is False means that the
\* snapshot holds the JobConfig as it is in memory (status, job_id, n_retries,
\* max_retries, exitcode, type, tags): every step that changes one of these fields
\* leaves the flag True, unless it has itself written the new values.  And every write
\* stores the status as get_status() has just refreshed it: a local attempt that is
\* over is written as SUCCESS or FAILED, never as RUNNING.
C16_NoLostUpdate ==
    /\ []((snapshot # <<>> /\ ~config.update) => snapshot = <<Persisted(config)>>)
    /\ [][Persisted(config') # Persisted(config) =>
            config'.update \/ snapshot' = <<Persisted(config')>>]_vars
    /\ [][(lastOp'.name = "update_snapshot" /\ Called("dump")') =>
            /\ snapshot' = <<Persisted(config')>>
            /\ LocalAttemptOver => config'.status \in {"SUCCESS", "FAILED"}]_vars

\* an update_snapshot has found the local attempt over, and written the job as SUCCESS
C16_Witness ==
    /\ lastOp.name = "update_snapshot"
    /\ calls = <<"poll", "write_log", "dump">>
    /\ ~config.update
    /\ config.status = "SUCCESS"
    /\ config.exitcode = "0"
    /\ snapshot = <<Persisted(config)>>

(* ------------------------ C17: the handles of a RUNNING job ------------ *)
\* the job driven by submit, get_status, cancel, reset, automatic retries and rerun
NextHandle ==
    \/ Submit
    \/ GetStatus
    \/ Cancel
    \/ Reset
    \/ AutoRetry
    \/ Rerun
    \/ ProcessExit

\* every method's calls observed
InitHandle == InitOf(TypeConfigs, "*")

SpecHandle == InitHandle /\ [][NextHandle]_vars

\* C17: a RUNNING LOCAL job has its process handle, so that get_status() and cancel()
\* (and the cancel inside a forced retry) never raise for a missing process; a RUNNING
\* BATCH job has in job_id the id the last backend.submit() returned.
C17_HandleAvailable ==
    /\ []((config.status = "RUNNING" /\ config.type = "LOCAL") =>
            /\ local_process # NoProcess
            /\ local_process = Len(procs))
    /\ []((config.status = "RUNNING" /\ config.type = "BATCH") =>
            /\ config.job_id # NoJobId
            /\ config.job_id = backend.submitted)
    /\ [][lastOp'.name \in {"get_status", "cancel", "_retry", "rerun"} =>
            result' # "Exception"]_vars

\* a poll of a batch job running its second submission
C17_Witness ==
    /\ lastOp.name = "get_status"
    /\ result = "RUNNING"
    /\ config.status = "RUNNING"
    /\ config.type = "BATCH"
    /\ config.job_id = 2
    /\ backend.submitted = 2

(* ------------------------ C18: FINISHED is transient ------------------- *)
\* jobs with a snapshot path, with finished_func and success_func present or absent
FinishConfigs ==
    {JobConfigInit("job.pkl", success_func, finished_func, FALSE, 0, InitialTags, job_type) :
        success_func \in BOOLEAN, finished_func \in BOOLEAN, job_type \in Type}

\* the calls of get_status observed
InitFinish == InitOf(FinishConfigs, "get_status")

\* the job driven by submit, get_status, cancel, reset and update_snapshot
NextFinish ==
    \/ Submit
    \/ GetStatus
    \/ Cancel
    \/ Reset
    \/ UpdateSnapshot
    \/ ProcessExit

SpecFinish == InitFinish /\ [][NextFinish]_vars

\* C18: with hooks that do not raise and a backend.status() that answers RUNNING or
\* FINISHED, a get_status() that evaluates (skip_eval=False) never returns FINISHED
\* and never leaves the status FINISHED; so the status is never FINISHED between two
\* calls, and no snapshot holds FINISHED.
C18_FinishedTransient ==
    /\ [][(lastOp'.name = "get_status" /\ ~lastOp'.skip_eval) =>
            /\ result' \notin {"FINISHED", "Exception"}
            /\ result' = config'.status]_vars
    /\ [](config.status # "FINISHED")
    /\ [](snapshot # <<>> => snapshot[1].status # "FINISHED")

\* a poll of a batch job has heard from finished_func that the job is finished and
\* from success_func that it failed: the job went through FINISHED to FAILED
C18_Witness ==
    /\ lastOp.name = "get_status"
    /\ calls = <<"finished_func", "True", "success_func", "False">>
    /\ result = "FAILED"
    /\ config.status = "FAILED"
    /\ config.type = "BATCH"

(* ------------------------ C19: polling outside RUNNING ----------------- *)
\* the calls so far that evaluate the success of the job
SuccessEvaluations == Count("success_func") + Count("backend.exitcode")

\* C19: get_status() with force_success_check=False on a CONFIGURED, SUCCESS, FAILED or
\* CANCELLED job changes nothing, calls neither the backend nor a hook, and returns
\* the stored status (so a cancelled job is reported CANCELLED, never SUCCESS or
\* FAILED).  On a RUNNING job it evaluates the success and calls post_func only in the
\* poll that finds the attempt finished, and there once each: with later polls doing
\* nothing, that is once per completed attempt.
C19_PollingStable ==
    [][(lastOp'.name = "get_status" /\ ~lastOp'.force_success_check) =>
        IF config.status # "RUNNING"
        THEN /\ UNCHANGED <<config, local_process, procs, backend, snapshot>>
             /\ calls' = <<>>
             /\ result' = config.status
        ELSE IF lastOp'.skip_eval \/ config'.status = "RUNNING"
        THEN /\ config'.status = "RUNNING"
             /\ SuccessEvaluations' = 0
             /\ Count("post_func")' = 0
        ELSE /\ config'.status \in {"SUCCESS", "FAILED"}
             /\ SuccessEvaluations' =
                    IF config.success_func \/ config.type = "BATCH" THEN 1 ELSE 0
             /\ Count("post_func")' = IF config.post_func THEN 1 ELSE 0
             /\ config.post_func => calls'[Len(calls')] = "post_func"]_vars

\* a local job with all hooks whose process had ended by itself with 0 before the
\* job was cancelled is polled, and reported CANCELLED without a hook being asked
C19_Witness ==
    /\ lastOp.name = "get_status"
    /\ ~lastOp.skip_eval
    /\ ~lastOp.force_success_check
    /\ calls = <<>>
    /\ result = "CANCELLED"
    /\ config.status = "CANCELLED"
    /\ config.success_func /\ config.finished_func /\ config.post_func
    /\ procs = <<"0">>

(* ------------------------ C20: the local processes --------------------- *)
\* LOCAL jobs without hooks and without a snapshot path
LocalPlainConfigs ==
    {JobConfigInit(None, FALSE, FALSE, FALSE, max_retries, InitialTags, "LOCAL") :
        max_retries \in 0..MaxMaxRetries}

\* the job driven by submit, get_status, cancel, _retry and rerun
NextOrphan ==
    \/ Submit
    \/ GetStatus
    \/ Cancel
    \/ Retry
    \/ Rerun
    \/ ProcessExit

\* the calls of get_status observed
InitOrphan == InitOf(LocalPlainConfigs, "get_status")

SpecOrphan == InitOrphan /\ [][NextOrphan]_vars

\* C20: no local process is orphaned: a process that still runs, and was not sent
\* termination, is the one the Job refers to, and the job's status is RUNNING; the
\* handle is dropped or replaced only when its process has ended or was terminated.
C20_NoOrphan ==
    /\ [](\A p \in 1..Len(procs) :
            procs[p] = "running" => (local_process = p /\ config.status = "RUNNING"))
    /\ [][(local_process # NoProcess /\ local_process' # local_process) =>
            procs'[local_process] # "running"]_vars

====
